---- MODULE Spec2Model ----
(***************************************************************************)
(* FileSystemBlobLoader (langchain/document_loaders/blob_loaders/          *)
(* file_system.py): a loader configured with a root path, a glob pattern,  *)
(* a suffix set and a progress flag, whose yield_blobs generator and       *)
(* count_matching_files method both traverse the file system through       *)
(* _yield_paths.                                                           *)
(*                                                                         *)
(* A file name is a sequence of one-character strings; a path is the       *)
(* sequence of names below the root.  The file system is a sequence of     *)
(* root entries in directory-listing order, each with a kind and, for a    *)
(* directory, its children in listing order.                               *)
(***************************************************************************)
EXTENDS Naturals, Sequences, FiniteSets

VARIABLES
    arg,          \* the root argument given to the constructor
    ctor,         \* "unconfigured" | "ok" | "TypeError"
    loader,       \* self: path, glob, suffixes, show_progress (NoLoader before)
    tree,         \* the directory tree below the root
    gen,          \* the generator object returned by yield_blobs
    sink,         \* the tqdm progress bar of the generator
    factoryCalls, \* paths given to Blob.from_path by the generator, in order,
                  \* each with what the path was when it was given
    yielded,      \* blobs handed to the consumer by the generator, in order
    lastPull,     \* what the consumer's last next() on the generator gave
    countPass,    \* paths seen by the generator's own counting pass
    lastCount,    \* result of the last direct count_matching_files call
    dirty,        \* the tree was mutated since the generator was created
    fsTouched     \* some traversal has read the file system

vars == <<arg, ctor, loader, tree, gen, sink, factoryCalls, yielded, lastPull,
          countPass, lastCount, dirty, fsTouched>>

\* ---------------------------------------------------------------- bounds

MaxEntries == 3

\* ------------------------------------------------------------ file names

Dot == "."

LeafFile(n) == [name |-> n, kind |-> "file", children |-> <<>>]

\* The entries a root directory may hold, in directory-listing order.
Catalogue ==
    << LeafFile(<<"a", Dot, "t">>),
       LeafFile(<<"b", Dot, "m">>),
       LeafFile(<<Dot, "h", Dot, "t">>),
       LeafFile(<<"c", Dot>>),
       [name |-> <<"s">>, kind |-> "dir",
        children |-> << LeafFile(<<"c", Dot, "t">>), LeafFile(<<Dot, "z">>) >>],
       [name |-> <<"d", Dot, "t">>, kind |-> "dir",
        children |-> << LeafFile(<<"f", Dot, "m">>) >>],
       [name |-> <<"p", Dot, "t">>, kind |-> "special", children |-> <<>>],
       [name |-> <<"x", Dot, "t">>, kind |-> "staterr", children |-> <<>>] >>

Min(S) == CHOOSE x \in S : \A y \in S : x <= y

RECURSIVE Pick(_)
Pick(S) == IF S = {} THEN <<>> ELSE <<Catalogue[Min(S)]>> \o Pick(S \ {Min(S)})

Trees == { Pick(S) : S \in { T \in SUBSET (1..Len(Catalogue)) : Cardinality(T) <= MaxEntries } }

\* ------------------------------------------------ pathlib: suffix, glob

RangeOf(seq) == { seq[i] : i \in 1..Len(seq) }

\* str.rfind('.') on a name, 1-based; 0 when the name has no dot.
LastDot(name) ==
    LET ds == { i \in 1..Len(name) : name[i] = Dot }
    IN  IF ds = {} THEN 0 ELSE CHOOSE i \in ds : \A j \in ds : j <= i

\* PurePath.suffix: from the last dot of the name, unless that dot is the
\* first or the last character.
PathSuffix(name) ==
    LET i == LastDot(name)
    IN  IF 1 < i /\ i < Len(name) THEN SubSeq(name, i, Len(name)) ELSE <<>>

\* One pattern token against one character (fnmatch).
TokMatch(tok, c) ==
    IF tok = "[!.]" THEN c # Dot
    ELSE IF tok = "?" THEN TRUE
    ELSE tok = c

\* fnmatch of one path segment: "*" matches any run of characters, a leading
\* dot included.
RECURSIVE FnMatch(_, _)
FnMatch(pat, name) ==
    IF pat = <<>> THEN name = <<>>
    ELSE IF Head(pat) = "*"
         THEN FnMatch(Tail(pat), name)
              \/ (name # <<>> /\ FnMatch(pat, Tail(name)))
         ELSE /\ name # <<>>
              /\ TokMatch(Head(pat), Head(name))
              /\ FnMatch(Tail(pat), Tail(name))

RecursiveSeg == <<"**">>

DefaultGlob == << RecursiveSeg, <<"[!.]", "*">> >>
StarGlob == << <<"*">> >>
RecursiveTxtGlob == << RecursiveSeg, <<"*", Dot, "t">> >>

Patterns == { DefaultGlob, StarGlob, RecursiveTxtGlob }

\* The entries of one directory listing whose names match a segment, as
\* paths below prefix, in listing order.
RECURSIVE SelectIn(_, _, _)
SelectIn(entries, seg, prefix) ==
    IF entries = <<>> THEN <<>>
    ELSE (IF FnMatch(seg, Head(entries).name)
          THEN << prefix \o <<Head(entries).name>> >> ELSE <<>>)
         \o SelectIn(Tail(entries), seg, prefix)

\* The matches below every directory of a listing, directory by directory.
RECURSIVE SelectBelow(_, _)
SelectBelow(entries, seg) ==
    IF entries = <<>> THEN <<>>
    ELSE (IF Head(entries).kind = "dir"
          THEN SelectIn(Head(entries).children, seg, <<Head(entries).name>>)
          ELSE <<>>)
         \o SelectBelow(Tail(entries), seg)

\* Path.glob: nothing when the root is not a directory; a one-segment
\* pattern lists the root; "**/seg" lists the root, then each directory.
Glob(root, tr, pattern) ==
    IF root # "dir" THEN <<>>
    ELSE IF Head(pattern) = RecursiveSeg
         THEN SelectIn(tr, pattern[2], <<>>) \o SelectBelow(tr, pattern[2])
         ELSE SelectIn(tr, pattern[1], <<>>)

\* The final segment of a path.
PathName(path) == path[Len(path)]

RECURSIVE FindKind(_, _)
FindKind(entries, name) ==
    IF entries = <<>> THEN "gone"
    ELSE IF Head(entries).name = name THEN Head(entries).kind
    ELSE FindKind(Tail(entries), name)

RECURSIVE FindChildren(_, _)
FindChildren(entries, name) ==
    IF entries = <<>> THEN <<>>
    ELSE IF Head(entries).name = name THEN Head(entries).children
    ELSE FindChildren(Tail(entries), name)

\* What stat() finds at a path now.
KindOf(tr, path) ==
    IF Len(path) = 1 THEN FindKind(tr, path[1])
    ELSE FindKind(FindChildren(tr, path[1]), path[2])

\* Faulty variant of IsFile: Path.exists in its place, true of a directory
\* or special file too.
IsFile_exists(tr, path) ==
    IF KindOf(tr, path) = "staterr" THEN "raise"
    ELSE IF KindOf(tr, path) = "gone" THEN "False" ELSE "True"

\* Path.is_file: "raise" when stat() fails with an error is_file does not
\* swallow, else whether the path is a regular file.
IsFile(tr, path) ==
    LET k == KindOf(tr, path)
    IN  IF k = "staterr" THEN "raise" ELSE IF k = "file" THEN "True" ELSE "False"

\* ------------------------------------------------------------ __init__

Dot_t == <<Dot, "t">>
Dot_m == <<Dot, "m">>

\* Optional[Sequence[str]]: None, or a sequence of suffixes.
NoneSuffixes == [isNone |-> TRUE, items |-> <<>>]
SomeSuffixes(items) == [isNone |-> FALSE, items |-> items]

\* The suffixes arguments tried; each suffix includes the dot, as the
\* docstring of __init__ requires.
SuffixArgs ==
    { NoneSuffixes, SomeSuffixes(<<>>), SomeSuffixes(<<Dot_t>>),
      SomeSuffixes(<<Dot_t, Dot_m>>), SomeSuffixes(<<Dot_t, Dot_t>>) }

\* The root argument: its Python type and, for a str or a Path, what the
\* file system holds at that path.
RootArgs ==
    { [type |-> t, target |-> g] : t \in {"str", "Path"}, g \in {"dir", "missing", "file"} }
    \cup { [type |-> t, target |-> "none"] : t \in {"int", "bytes", "NoneType"} }

NoArg == [type |-> "none", target |-> "none"]
NoLoader == [path |-> "none", glob |-> <<>>, suffixes |-> {}, show_progress |-> FALSE]

\* isinstance(path, Path) or isinstance(path, str)
IsPathLike(root) == root.type \in {"Path", "str"}

\* set(suffixes or [])
SuffixSet(suffixes) == IF suffixes.isNone THEN {} ELSE RangeOf(suffixes.items)

\* Faulty variant of __init__: the root is checked to be a directory.
FileSystemBlobLoader_validating(root, glob, suffixes, show_progress) ==
    IF IsPathLike(root) /\ root.target = "dir"
    THEN [raised |-> "none", fsAccess |-> TRUE,
          self |-> [path |-> root.target, glob |-> glob,
                    suffixes |-> SuffixSet(suffixes),
                    show_progress |-> show_progress]]
    ELSE [raised |-> IF IsPathLike(root) THEN "NotADirectoryError" ELSE "TypeError",
          fsAccess |-> IsPathLike(root), self |-> NoLoader]

\* FileSystemBlobLoader.__init__: the attributes it stores, or the TypeError,
\* and whether it read the file system.
FileSystemBlobLoader(root, glob, suffixes, show_progress) ==
    IF IsPathLike(root)
    THEN [raised |-> "none", fsAccess |-> FALSE,
          self |-> [path |-> root.target, glob |-> glob,
                    suffixes |-> SuffixSet(suffixes),
                    show_progress |-> show_progress]]
    ELSE [raised |-> "TypeError", fsAccess |-> FALSE, self |-> NoLoader]

\* ---------------------------------------------------------- _yield_paths

\* Faulty variant of SuffixSkips: the suffix test never skips a path.
SuffixNeverSkips(self, path) == FALSE

\* if self.suffixes and path.suffix not in self.suffixes: continue
SuffixSkips(self, path) ==
    self.suffixes # {} /\ PathSuffix(PathName(path)) \notin self.suffixes

\* _yield_paths resumed with the glob's paths and the index of the path it
\* last looked at: the index it stops at, and whether it yields that path,
\* ends, or raises out of is_file.
RECURSIVE yield_paths_next(_, _, _, _)
yield_paths_next(self, tr, paths, cur) ==
    IF cur >= Len(paths) THEN [outcome |-> "stop", cur |-> cur]
    ELSE LET path == paths[cur + 1]
             f == IsFile(tr, path)
         IN  IF f = "raise" THEN [outcome |-> "raise", cur |-> cur + 1]
             ELSE IF f = "True" /\ ~SuffixSkips(self, path)
                  THEN [outcome |-> "yield", cur |-> cur + 1]
                  ELSE yield_paths_next(self, tr, paths, cur + 1)

\* _yield_paths run to its end: the paths it yields, in order, and whether
\* it raised.
RECURSIVE Drain(_, _, _, _, _)
Drain(self, tr, paths, cur, seen) ==
    LET r == yield_paths_next(self, tr, paths, cur)
    IN  IF r.outcome = "yield"
        THEN Drain(self, tr, paths, r.cur, Append(seen, paths[r.cur]))
        ELSE [raised |-> (r.outcome = "raise"), seen |-> seen]

yield_paths(self, tr) == Drain(self, tr, Glob(self.path, tr, self.glob), 0, <<>>)

\* Faulty variant of count_matching_files: counts every path of the glob,
\* files or not, whatever their suffix.
count_all_globbed(self, tr) ==
    LET paths == Glob(self.path, tr, self.glob)
    IN  [raised |-> FALSE, num |-> Len(paths), seen |-> paths]

\* count_matching_files: num is raised by one for each path of _yield_paths.
count_matching_files(self, tr) ==
    LET w == yield_paths(self, tr)
    IN  [raised |-> w.raised, num |-> Len(w.seen), seen |-> w.seen]

\* ---------------------------------------------------------- progress bar

NoSink == [state |-> "none", total |-> 0, n |-> 0]

\* Faulty variant of tqdm: the bar is made without its total.
tqdm_nototal(total) == [state |-> "open", total |-> 0, n |-> 0]

\* tqdm(total=...) entered by the with statement
tqdm(total) == [state |-> "open", total |-> total, n |-> 0]

\* progress_bar.update(1)
update(bar, k) == [bar EXCEPT !.n = @ + k]

\* Faulty variant of exit: the bar is used without a with block, and is
\* never released.
exit_leaveopen(bar) == bar

\* leaving the with block, however it is left
exit(bar) == IF bar.state = "open" THEN [bar EXCEPT !.state = "closed"] ELSE bar

\* ----------------------------------------------------------- yield_blobs

NoGen == [pc |-> "none", end |-> "none", paths |-> <<>>, cur |-> 0, stats |-> 0]

\* Faulty variant of yield_blobs: the glob is expanded and every path tested
\* when yield_blobs is called, before the consumer advances anything.
yield_blobs_eager(self, tr) ==
    [pc |-> "created", end |-> "none", paths |-> Glob(self.path, tr, self.glob),
     cur |-> 0, stats |-> Len(Glob(self.path, tr, self.glob))]

\* Faulty variant of yield_blobs: the generator starts from a cursor kept
\* from an earlier traversal, not from the root.
yield_blobs_stale(self, tr) ==
    [pc |-> "created", end |-> "none", paths |-> <<>>, cur |-> 1, stats |-> 0]

\* Calling yield_blobs runs none of its body: the generator object is
\* created unstarted, with no glob expanded (tr, the file system at the
\* call, is not read), no path looked at and no is_file call made.
yield_blobs(self, tr) ==
    [pc |-> "created", end |-> "none", paths |-> <<>>, cur |-> 0, stats |-> 0]

\* Blob.from_path(path)
Blob(path) == [path |-> path]

\* Faulty variant of BarOnAdvance: progress_bar.update(1) placed before the
\* yield, so that a blob is counted when it is produced.
BarOnProduce(self, g, bar, total) ==
    IF ~self.show_progress THEN bar
    ELSE IF g.pc = "created" THEN update(tqdm(total), 1)
    ELSE update(bar, 1)

\* What the generator does to the progress bar when it is advanced: on the
\* first advance tqdm(total=self.count_matching_files()) is entered; on a
\* later one the statement after the yield, progress_bar.update(1), runs.
BarOnAdvance(self, g, bar, total) ==
    IF ~self.show_progress THEN bar
    ELSE IF g.pc = "created" THEN tqdm(total)
    ELSE update(bar, 1)

\* Faulty variant of Finished: a generator that survives an error of
\* Blob.from_path and can be advanced again.
FinishedResumable(g, how) ==
    IF how = "factory_error" THEN [g EXCEPT !.pc = "suspended", !.end = how]
    ELSE [g EXCEPT !.pc = "done", !.end = how]

\* The generator ended: exhausted, closed, or by an exception leaving it.
Finished(g, how) == [g EXCEPT !.pc = "done", !.end = how]

\* One next() on a generator that is unstarted or suspended at its yield,
\* with factoryOk saying whether Blob.from_path succeeds if it is called.
\* gen and sink are the generator and the bar afterwards, called the path
\* given to Blob.from_path (if any), blobs the blob handed over (if any),
\* result what next() gives the consumer, counted the paths of the
\* counting pass (first advance with show_progress).
Resume(self, tr, g, bar, factoryOk) ==
    LET start == g.pc = "created"
        c == count_matching_files(self, tr)
        counting == start /\ self.show_progress
        bar1 == BarOnAdvance(self, g, bar, c.num)
        paths == IF start THEN Glob(self.path, tr, self.glob) ELSE g.paths
        r == yield_paths_next(self, tr, paths, g.cur)
        g1 == [g EXCEPT !.paths = paths, !.cur = r.cur,
                        !.stats = @ + (r.cur - g.cur)]
        counted == IF counting THEN c.seen ELSE <<>>
    IN  IF counting /\ c.raised
        THEN [gen |-> Finished(g, "traversal_error"), sink |-> bar,
              called |-> <<>>, blobs |-> <<>>, result |-> "OSError",
              counted |-> counted]
        ELSE IF r.outcome = "stop"
        THEN [gen |-> Finished(g1, "exhausted"), sink |-> exit(bar1),
              called |-> <<>>, blobs |-> <<>>, result |-> "StopIteration",
              counted |-> counted]
        ELSE IF r.outcome = "raise"
        THEN [gen |-> Finished(g1, "traversal_error"), sink |-> exit(bar1),
              called |-> <<>>, blobs |-> <<>>, result |-> "OSError",
              counted |-> counted]
        ELSE IF factoryOk
        THEN [gen |-> [g1 EXCEPT !.pc = "suspended"], sink |-> bar1,
              called |-> <<paths[r.cur]>>, blobs |-> <<Blob(paths[r.cur])>>,
              result |-> "blob", counted |-> counted]
        ELSE [gen |-> Finished(g1, "factory_error"), sink |-> exit(bar1),
              called |-> <<paths[r.cur]>>, blobs |-> <<>>,
              result |-> "BlobError", counted |-> counted]

\* generator.close(): GeneratorExit is raised at the yield the generator is
\* suspended at, which leaves the with block; an unstarted generator just
\* ends.
CloseBar(g, bar) == IF g.pc = "suspended" THEN exit(bar) ELSE bar

\* ------------------------------------------------------------ file system

\* The root entry another process changes while the program runs: x.t is a
\* regular file whose stat() fails ("staterr") or succeeds ("file") as the
\* permissions on it are changed.
Volatile == { c.name : c \in { e \in RangeOf(Catalogue) : e.kind = "staterr" } }

OtherKind(kind) == IF kind = "staterr" THEN "file" ELSE "staterr"

\* ---------------------------------------------------------------- system

NoCount == [made |-> FALSE, raised |-> FALSE, num |-> 0, seen |-> <<>>, stale |-> FALSE]

Init ==
    /\ arg = NoArg
    /\ ctor = "unconfigured"
    /\ loader = NoLoader
    /\ tree \in Trees
    /\ gen = NoGen
    /\ sink = NoSink
    /\ factoryCalls = <<>>
    /\ yielded = <<>>
    /\ lastPull = "none"
    /\ countPass = <<>>
    /\ lastCount = NoCount
    /\ dirty = FALSE
    /\ fsTouched = FALSE

\* loader = FileSystemBlobLoader(root, glob=..., suffixes=..., show_progress=...)
\* A root that is missing or a regular file has nothing below it.
New(root, glob, suffixes, show_progress) ==
    /\ ctor = "unconfigured"
    /\ (root.target \in {"missing", "file"} => tree = <<>>)
    /\ LET res == FileSystemBlobLoader(root, glob, suffixes, show_progress)
       IN  /\ arg' = root
           /\ ctor' = IF res.raised = "none" THEN "ok" ELSE res.raised
           /\ loader' = res.self
           /\ fsTouched' = res.fsAccess
    /\ UNCHANGED <<tree, gen, sink, factoryCalls, yielded, lastPull,
                   countPass, lastCount, dirty>>

\* n = loader.count_matching_files()
CountMatchingFiles ==
    /\ ctor = "ok"
    /\ LET c == count_matching_files(loader, tree)
       IN  lastCount' = [made |-> TRUE, raised |-> c.raised,
                         num |-> IF c.raised THEN 0 ELSE c.num,
                         seen |-> c.seen, stale |-> FALSE]
    /\ fsTouched' = TRUE
    /\ UNCHANGED <<arg, ctor, loader, tree, gen, sink, factoryCalls, yielded,
                   lastPull, countPass, dirty>>

\* it = loader.yield_blobs(), once any earlier generator has ended
YieldBlobs ==
    /\ ctor = "ok"
    /\ gen.pc \in {"none", "done"}
    /\ gen' = yield_blobs(loader, tree)
    /\ sink' = NoSink
    /\ factoryCalls' = <<>>
    /\ yielded' = <<>>
    /\ lastPull' = "none"
    /\ countPass' = <<>>
    /\ dirty' = FALSE
    /\ UNCHANGED <<arg, ctor, loader, tree, lastCount, fsTouched>>

\* next(it) on a generator that has not ended
Pull(factoryOk) ==
    /\ gen.pc \in {"created", "suspended"}
    /\ LET res == Resume(loader, tree, gen, sink, factoryOk)
       IN  /\ gen' = res.gen
           /\ sink' = res.sink
           /\ factoryCalls' = factoryCalls \o
                  [i \in 1..Len(res.called) |->
                      [path |-> res.called[i], kind |-> KindOf(tree, res.called[i])]]
           /\ yielded' = yielded \o res.blobs
           /\ lastPull' = res.result
           /\ countPass' = IF gen.pc = "created" THEN res.counted ELSE countPass
    /\ fsTouched' = TRUE
    /\ UNCHANGED <<arg, ctor, loader, tree, lastCount, dirty>>

\* next(it) on a generator that has ended: StopIteration, nothing runs
PullFinished ==
    /\ gen.pc = "done"
    /\ lastPull' = "StopIteration"
    /\ UNCHANGED <<arg, ctor, loader, tree, gen, sink, factoryCalls, yielded,
                   countPass, lastCount, dirty, fsTouched>>

\* it.close(), or the consumer dropping the generator
Close ==
    /\ gen.pc \in {"created", "suspended"}
    /\ sink' = CloseBar(gen, sink)
    /\ gen' = Finished(gen, "closed")
    /\ UNCHANGED <<arg, ctor, loader, tree, factoryCalls, yielded, lastPull,
                   countPass, lastCount, dirty, fsTouched>>

\* Another process changes what root entry i is.
Mutate(i) ==
    /\ ctor = "ok"
    /\ i \in 1..Len(tree)
    /\ tree[i].name \in Volatile
    /\ tree' = [tree EXCEPT ![i].kind = OtherKind(@)]
    /\ dirty' = TRUE
    /\ lastCount' = [lastCount EXCEPT !.stale = TRUE]
    /\ UNCHANGED <<arg, ctor, loader, gen, sink, factoryCalls, yielded,
                   lastPull, countPass, fsTouched>>

Next ==
    \/ \E root \in RootArgs, glob \in Patterns, suffixes \in SuffixArgs,
          show_progress \in BOOLEAN : New(root, glob, suffixes, show_progress)
    \/ CountMatchingFiles
    \/ YieldBlobs
    \/ \E factoryOk \in BOOLEAN : Pull(factoryOk)
    \/ PullFinished
    \/ Close
    \/ \E i \in 1..Len(tree) : Mutate(i)

Spec == Init /\ [][Next]_vars

\* ---------------------------------------------------------------- claims

PathsOf(blobs) == [i \in 1..Len(blobs) |-> blobs[i].path]

\* The glob's paths that are regular files now, in glob order.
GlobbedFiles(self, tr) ==
    LET IsReg(path) == KindOf(tr, path) = "file"
    IN  SelectSeq(Glob(self.path, tr, self.glob), IsReg)

\* The glob's paths that are regular files now and pass the suffix test.
MatchingFiles(self, tr) ==
    LET Keeps(path) == self.suffixes = {} \/ PathSuffix(PathName(path)) \in self.suffixes
    IN  SelectSeq(GlobbedFiles(self, tr), Keeps)

\* The substring of a name from its last dot, the dot included; empty when
\* the name has no dot.
FinalExtension(name) ==
    IF LastDot(name) = 0 THEN <<>> ELSE SubSeq(name, LastDot(name), Len(name))

\* A direct count was made and the tree has not changed since.
FreshCount == lastCount.made /\ ~lastCount.stale

\* C1: on a tree not mutated between the calls, the number returned by
\* count_matching_files equals the number of blobs a fully consumed
\* yield_blobs produced, and the counting pass and the producing pass saw the
\* same paths in the same order; so did the counting pass yield_blobs makes
\* itself when show_progress is set.
C1_CountEqualsEnumerate ==
    (gen.end = "exhausted" /\ ~dirty) =>
        /\ FreshCount =>
              /\ ~lastCount.raised
              /\ lastCount.num = Len(yielded)
              /\ lastCount.seen = PathsOf(yielded)
        /\ loader.show_progress =>
              /\ sink.total = Len(yielded)
              /\ countPass = PathsOf(yielded)

C1_Witness ==
    /\ gen.end = "exhausted" /\ ~dirty /\ FreshCount
    /\ loader.suffixes # {}
    /\ Len(yielded) >= 2
    /\ lastCount.num = Len(yielded)
    /\ Len(gen.paths) > Len(yielded) + 1

\* C2: with a non-empty suffix set, every path yielded by yield_blobs and
\* every path counted by count_matching_files has its final extension (from
\* the last dot of its final segment) in the set; with an empty set (from
\* suffixes=None or an empty sequence) every globbed regular file is yielded
\* and counted, none left out for its suffix.
C2_SuffixFilter ==
    /\ loader.suffixes # {} =>
          /\ \A i \in 1..Len(yielded) :
                FinalExtension(PathName(yielded[i].path)) \in loader.suffixes
          /\ \A i \in 1..Len(lastCount.seen) :
                FinalExtension(PathName(lastCount.seen[i])) \in loader.suffixes
          /\ \A i \in 1..Len(countPass) :
                FinalExtension(PathName(countPass[i])) \in loader.suffixes
    /\ (ctor = "ok" /\ loader.suffixes = {}) =>
          /\ (gen.end = "exhausted" /\ ~dirty) =>
                PathsOf(yielded) = GlobbedFiles(loader, tree)
          /\ (FreshCount /\ ~lastCount.raised) =>
                /\ lastCount.seen = GlobbedFiles(loader, tree)
                /\ lastCount.num = Len(GlobbedFiles(loader, tree))
    /\ SuffixSet(NoneSuffixes) = {}
    /\ SuffixSet(SomeSuffixes(<<>>)) = {}

C2_Witness ==
    /\ loader.suffixes = {Dot_t}
    /\ gen.end = "exhausted" /\ ~dirty
    /\ Len(yielded) >= 2
    /\ FreshCount /\ lastCount.num >= 2
    /\ \E i \in 1..Len(gen.paths) :
          /\ KindOf(tree, gen.paths[i]) = "file"
          /\ PathSuffix(PathName(gen.paths[i])) \notin loader.suffixes

\* C3: only regular files are given to Blob.from_path, yielded or counted: a
\* directory or special file the glob matches is skipped, and adds nothing to
\* the count or to the progress total.
C3_OnlyRegularFiles ==
    /\ \A i \in 1..Len(factoryCalls) : factoryCalls[i].kind = "file"
    /\ \A i \in 1..Len(yielded) : yielded[i].path = factoryCalls[i].path
    /\ (FreshCount /\ ~lastCount.raised) =>
          /\ \A i \in 1..Len(lastCount.seen) : KindOf(tree, lastCount.seen[i]) = "file"
          /\ lastCount.num = Len(MatchingFiles(loader, tree))
    /\ (sink.state # "none" /\ ~dirty) =>
          sink.total = Len(MatchingFiles(loader, tree))

C3_Witness ==
    /\ gen.end = "exhausted" /\ ~dirty
    /\ loader.show_progress
    /\ Len(yielded) >= 1
    /\ FreshCount /\ lastCount.num >= 1
    /\ \E i \in 1..Len(gen.paths) : KindOf(tree, gen.paths[i]) = "dir"
    /\ \E i \in 1..Len(gen.paths) : KindOf(tree, gen.paths[i]) = "special"

\* C4: with show_progress on an unmutated tree with N matching files, the
\* progress bar exists with total N before the first blob is produced, and
\* when the sequence is exhausted it has received exactly N increments.
C4_ProgressTotalAndIncrements ==
    loader.show_progress =>
        /\ (factoryCalls # <<>> \/ yielded # <<>>) => sink.state # "none"
        /\ sink.state # "none" => sink.total = Len(countPass)
        /\ (sink.state # "none" /\ ~dirty) =>
              sink.total = Len(MatchingFiles(loader, tree))
        /\ gen.end = "exhausted" => sink.n = Len(yielded)
        /\ (gen.end = "exhausted" /\ ~dirty) =>
              /\ sink.total = Len(MatchingFiles(loader, tree))
              /\ sink.n = Len(MatchingFiles(loader, tree))

C4_Witness ==
    /\ loader.show_progress
    /\ gen.end = "exhausted" /\ ~dirty
    /\ sink.total >= 2 /\ sink.n = sink.total
    /\ Len(gen.paths) > sink.total

\* C5: with show_progress, no ended sequence leaves its progress bar open:
\* it is released when the sequence is exhausted, closed by the consumer,
\* or ended by an error of Blob.from_path or of the traversal.
C5_SinkReleased ==
    /\ gen.pc = "done" => sink.state # "open"
    /\ (gen.pc = "done" /\ loader.show_progress /\ (factoryCalls # <<>> \/ gen.stats > 0)) =>
          sink.state = "closed"
    /\ sink.state = "open" => (loader.show_progress /\ gen.pc = "suspended")

C5_Witness ==
    /\ gen.end = "traversal_error"
    /\ sink.state = "closed"
    /\ Len(yielded) >= 1

\* A path of the glob after the generator's cursor would still be yielded.
LaterMatch == yield_paths_next(loader, tree, gen.paths, gen.cur).outcome = "yield"

\* C6 as stated: after Blob.from_path failed for one path, a consumer that
\* keeps pulling from the same sequence has the later matching paths
\* attempted.
C6_LaterItemsAttempted ==
    (gen.end = "factory_error" /\ lastPull = "StopIteration" /\ LaterMatch) =>
        Len(factoryCalls) > Len(yielded) + 1

\* C6 amended: a failure of Blob.from_path surfaces in the pull that asks for
\* that item and leaves the blobs yielded before it as they were; it ends the
\* sequence: every later pull gives StopIteration and attempts no further
\* path.
C6_ErrorEndsSequence ==
    /\ [](/\ gen.end = "factory_error" =>
                (gen.pc = "done" /\ Len(factoryCalls) = Len(yielded) + 1)
          /\ gen.end # "factory_error" => Len(factoryCalls) = Len(yielded)
          /\ lastPull = "BlobError" => gen.end = "factory_error")
    /\ [][/\ (gen.end # "factory_error" /\ gen'.end = "factory_error") =>
                /\ gen.pc \in {"created", "suspended"}
                /\ lastPull' = "BlobError"
                /\ yielded' = yielded
                /\ Len(factoryCalls') = Len(factoryCalls) + 1
          /\ (gen.end = "factory_error" /\ gen'.end = "factory_error") =>
                /\ gen' = gen
                /\ factoryCalls' = factoryCalls
                /\ yielded' = yielded
                /\ lastPull' \in {"BlobError", "StopIteration"}
          /\ gen'.pc # "created" =>
                (Len(yielded') >= Len(yielded)
                 /\ SubSeq(yielded', 1, Len(yielded)) = yielded)]_vars

C6_Witness ==
    /\ gen.end = "factory_error"
    /\ lastPull = "StopIteration"
    /\ Len(yielded) >= 1
    /\ Len(factoryCalls) = Len(yielded) + 1
    /\ LaterMatch

\* C7: without show_progress, calling yield_blobs expands no glob, tests no
\* path and calls Blob.from_path for none until the consumer first advances
\* the sequence; once the consumer has pulled k items, Blob.from_path has been
\* called exactly k times and no path after the k-th match has been tested.
C7_Lazy ==
    /\ gen.pc = "created" =>
          /\ gen.paths = <<>> /\ gen.cur = 0 /\ gen.stats = 0
          /\ factoryCalls = <<>> /\ yielded = <<>>
    /\ (~loader.show_progress /\ gen.pc = "suspended") =>
          /\ Len(yielded) >= 1
          /\ Len(factoryCalls) = Len(yielded)
          /\ gen.stats = gen.cur
          /\ gen.cur \in 1..Len(gen.paths)
          /\ gen.paths[gen.cur] = yielded[Len(yielded)].path
          /\ ~dirty => PathsOf(yielded) =
                          SubSeq(MatchingFiles(loader, tree), 1, Len(yielded))

C7_Witness ==
    /\ ~loader.show_progress
    /\ gen.pc = "suspended"
    /\ Len(yielded) = 1
    /\ gen.stats = 2
    /\ gen.stats < Len(gen.paths)
    /\ LaterMatch

\* C8: construction raises TypeError exactly when the root is neither a str
\* nor a Path, and then no loader exists; for a str or a Path it succeeds,
\* reads nothing of the file system and accepts a root that is missing or
\* not a directory.
C8_Construction ==
    /\ ctor = "TypeError" <=> arg.type \in {"int", "bytes", "NoneType"}
    /\ ctor = "ok" <=> arg.type \in {"str", "Path"}
    /\ ctor # "ok" => (loader = NoLoader /\ gen = NoGen /\ ~lastCount.made)
    /\ ctor = "ok" => loader.path = arg.target
    /\ (gen.pc = "none" /\ ~lastCount.made) => ~fsTouched
    /\ \A root \in RootArgs :
          FileSystemBlobLoader(root, DefaultGlob, NoneSuffixes, FALSE).raised
            = IF root.type \in {"str", "Path"} THEN "none" ELSE "TypeError"

C8_Witness ==
    /\ ctor = "ok"
    /\ arg.type = "str"
    /\ arg.target = "missing"
    /\ loader.path = "missing"
    /\ ~fsTouched

\* C9: no call changes the loader's configuration, whatever way it ends, and
\* nothing of a traversal is kept: a new generator starts with no glob result
\* and no cursor, and what a call finds is what a walk from the root finds
\* in the tree as it is then.
C9_ConfigurationKept ==
    /\ [][ctor = "ok" => (loader' = loader /\ ctor' = ctor /\ arg' = arg)]_vars
    /\ [](gen.pc = "created" =>
            /\ gen.paths = <<>> /\ gen.cur = 0 /\ gen.stats = 0
            /\ sink = NoSink /\ yielded = <<>> /\ countPass = <<>>)
    /\ []((gen.end = "exhausted" /\ ~dirty) =>
            PathsOf(yielded) = MatchingFiles(loader, tree))
    /\ []((FreshCount /\ ~lastCount.raised) =>
            lastCount.seen = MatchingFiles(loader, tree))

\* A generator ended by a traversal error after its first blob; the tree
\* was then repaired and a later count walked all of it.
C9_Witness ==
    /\ gen.end = "traversal_error"
    /\ Len(yielded) >= 1
    /\ FreshCount /\ ~lastCount.raised
    /\ lastCount.num > Len(yielded)
    /\ lastCount.seen = MatchingFiles(loader, tree)

\* C10 as stated: with show_progress, whenever the consumer holds k >= 1
\* blobs and the sequence has not been exhausted, the bar has received
\* exactly k - 1 increments.
C10_AsStated ==
    (loader.show_progress /\ Len(yielded) >= 1 /\ gen.end # "exhausted") =>
        sink.n + 1 = Len(yielded)

\* C10 amended: with show_progress, the increment for the k-th blob is sent
\* when the consumer asks for the item after it: while the consumer holds
\* k >= 1 blobs and the sequence has not ended (the generator is suspended)
\* the bar has k - 1 increments, and closing the sequence then releases the
\* bar with k - 1 increments; a sequence ended by an error raised while the
\* next item was fetched, like an exhausted one, has k increments.
C10_IncrementOnNextPull ==
    loader.show_progress =>
        /\ gen.pc = "suspended" =>
              /\ sink.state = "open"
              /\ Len(yielded) >= 1
              /\ sink.n + 1 = Len(yielded)
        /\ (gen.end = "closed" /\ Len(yielded) >= 1) =>
              /\ sink.state = "closed"
              /\ sink.n + 1 = Len(yielded)
        /\ (gen.end \in {"factory_error", "traversal_error", "exhausted"}
            /\ Len(yielded) >= 1) =>
              /\ sink.state = "closed"
              /\ sink.n = Len(yielded)

C10_Witness ==
    /\ loader.show_progress
    /\ gen.end = "closed"
    /\ Len(yielded) = 2
    /\ sink.state = "closed"
    /\ sink.n = 1
    /\ sink.total >= 2

====
